---- MODULE Spec2Model ----
(***************************************************************************)
(* Model of the bridleway-log repository:                                  *)
(*   - data/gpxfiles/process_activities.py  (the processing script)        *)
(*   - data/gpxfiles/analyze_activities.py  (the reconciliation script)    *)
(*   - backend/app/api/paths.py, stats.py   (the read API)                 *)
(* Strings are sequences of one-character strings, so that startswith,     *)
(* endswith, slicing and pathlib's with_suffix are computed, not assumed.  *)
(***************************************************************************)
EXTENDS Integers, Sequences, FiniteSets, TLC

VARIABLES
    csv,            \* activities.csv: the set of Filename fields of its rows
    act,            \* activities/ : file name -> content
    unm,            \* unmatched/  : file name -> content
    kind,           \* what each .fit.gz the CSV names decodes to: "good" | "nopoints"
    has_fit,        \* HAS_FITDECODE
    run,            \* which run of the processing script this is
    pc,             \* position of the processing script
    cur,            \* the file the current decompress/convert call works on
    todo,           \* files the current loop has not reached yet
    csv_files,      \* main(): csv_files
    unmatched,      \* main(): unmatched
    matched_gpx,    \* main(): matched_gpx
    matched_gpx_gz, \* main(): matched_gpx_gz
    matched_fit_gz, \* main(): matched_fit_gz
    cnt,            \* main(): the six success/error counters
    ret,            \* the last (success, result) returned by a per-file call
    tried,          \* <<step, file>> -> number of attempts in this run
    written,        \* compressed files whose output has been completely written
    act0,           \* activities/ as it was when this run started
    prev,           \* <<activities/, unmatched/, clean>> at the end of the previous run
    report,         \* analyze(): the returned dictionary (or "none")
    table,          \* the paths table: a set of records
    req,            \* the last API request
    resp            \* the last API response

procVars == <<csv, act, unm, kind, has_fit, run, pc, cur, todo, csv_files, unmatched,
              matched_gpx, matched_gpx_gz, matched_fit_gz, cnt, ret, tried, written,
              act0, prev>>
apiVars == <<table, req, resp>>
vars == <<procVars, report, apiVars>>

\* ---------------------------------------------------------------- bounds
MaxRows == 2
MaxFiles == 3
MaxRuns == 2
MaxRecs == 2

\* ---------------------------------------------------------------- strings
PREFIX == <<"a", "c", "t", "i", "v", "i", "t", "i", "e", "s", "/">>
PrefixLen == 11
EMPTY == <<>>
GPX == <<".", "g", "p", "x">>
GZ == <<".", "g", "z">>
FIT == <<".", "f", "i", "t">>
GPX_GZ == GPX \o GZ
FIT_GZ == FIT \o GZ

startswith(s, p) == Len(s) >= Len(p) /\ SubSeq(s, 1, Len(p)) = p
endswith(s, x) == Len(s) >= Len(x) /\ SubSeq(s, Len(s) - Len(x) + 1, Len(s)) = x

\* filename[11:]
StripPrefix(s) == SubSeq(s, PrefixLen + 1, Len(s))

\* pathlib: PurePath.suffix, the last dot-part of the name ('' for a leading or
\* trailing dot, or no dot)
suffix(name) ==
    LET dots == {i \in 1..Len(name) : name[i] = "."}
    IN  IF dots = {} THEN EMPTY
        ELSE LET i == CHOOSE d \in dots : \A e \in dots : e <= d
             IN  IF 1 < i /\ i < Len(name) THEN SubSeq(name, i, Len(name)) ELSE EMPTY

\* pathlib: PurePath.with_suffix(new)
with_suffix(name, new) ==
    IF suffix(name) = EMPTY THEN name \o new
    ELSE SubSeq(name, 1, Len(name) - Len(suffix(name))) \o new

\* ---------------------------------------------------------------- files
A == <<"a">>
B == <<"b">>
DiskNames == {A \o GPX, A \o GPX_GZ, A \o FIT_GZ, B \o GPX_GZ, B \o FIT_GZ}

\* Filename fields a CSV row may hold: prefixed names, and a name without the prefix
RawNames == {PREFIX \o n : n \in DiskNames} \cup {A \o GPX}
\* ... and, for the comparison of the two scripts, an empty field and the bare prefix
ReconRawNames == RawNames \cup {EMPTY, PREFIX, B \o GPX_GZ}

Raw(f) == [of |-> f, form |-> "raw", whole |-> TRUE]
Data(f, form, whole) == [of |-> f, form |-> form, whole |-> whole]

\* a directory with file f (over)written / removed
Put(d, f, c) == (f :> c) @@ d
Del(d, f) == [n \in DOMAIN d \ {f} |-> d[n]]

NoFiles == [n \in {} |-> Raw(n)]
NoRet == [fn |-> "none", file |-> EMPTY, ok |-> TRUE, why |-> "none"]
Ret(fn, f, ok, why) == [fn |-> fn, file |-> f, ok |-> ok, why |-> why]
ZeroCnt == [moved |-> 0, errors |-> 0, gpx_gz_success |-> 0, gpx_gz_errors |-> 0,
            fit_success |-> 0, fit_errors |-> 0]
NoTries == [k \in {} |-> 0]
Bump(t, k) == [x \in DOMAIN t \cup {k} |-> IF x = k THEN (IF k \in DOMAIN t THEN t[k] ELSE 0) + 1
                                           ELSE t[x]]
Tries(k) == IF k \in DOMAIN tried THEN tried[k] ELSE 0

\* ---------------------------------------------------------------- process_activities.py
\* get_csv_files(): the set of expected filenames
get_csv_files(rows) ==
    {StripPrefix(filename) : filename \in
        {r \in rows : r # EMPTY /\ startswith(r, PREFIX) /\ StripPrefix(r) # EMPTY}}

\* get_actual_files()
get_actual_files(dir) == DOMAIN dir

\* main(): the matched / unmatched partition
proc_matched(rows, dir) == get_csv_files(rows) \cap get_actual_files(dir)
proc_unmatched(rows, dir) == get_actual_files(dir) \ get_csv_files(rows)

\* main(): the three categories of matched files
select_gpx(m) == {f \in m : endswith(f, GPX)}
select_gpx_gz(m) == {f \in m : endswith(f, GPX_GZ)}
select_fit_gz(m) == {f \in m : endswith(f, FIT_GZ)}

\* decompress_gpx_gz: output_path
output_path(f) == with_suffix(f, EMPTY)
\* convert_fit_gz: fit_path, gpx_path
fit_path(f) == with_suffix(f, EMPTY)
gpx_path(f) == with_suffix(fit_path(f), GPX)

ProcInit ==
    /\ csv \in {c \in SUBSET RawNames : Cardinality(c) <= MaxRows}
    /\ \E names \in {d \in SUBSET DiskNames : Cardinality(d) <= MaxFiles} :
          /\ act = [n \in names |-> Raw(n)]
          /\ kind \in [select_fit_gz(names \cap get_csv_files(csv)) -> {"good", "nopoints"}]
    /\ unm = NoFiles
    /\ has_fit \in BOOLEAN
    /\ run = 1
    /\ pc = "start"
    /\ cur = EMPTY
    /\ todo = {}
    /\ csv_files = {}
    /\ unmatched = {}
    /\ matched_gpx = {}
    /\ matched_gpx_gz = {}
    /\ matched_fit_gz = {}
    /\ cnt = ZeroCnt
    /\ ret = NoRet
    /\ tried = NoTries
    /\ written = {}
    /\ act0 = act
    /\ prev = <<NoFiles, NoFiles, FALSE>>

NoReport == [made |-> FALSE, matched |-> {}, unmatched |-> {}, missing |-> {}, csv_data |-> {}]
ApiIdle ==
    /\ table = {}
    /\ req = [op |-> "none"]
    /\ resp = [op |-> "none"]

Init ==
    /\ ProcInit
    /\ report = NoReport
    /\ ApiIdle

inputs == <<csv, kind, has_fit>>
locals == <<csv_files, unmatched, matched_gpx, matched_gpx_gz, matched_fit_gz, act0>>
others == <<report, apiVars>>

\* main(), lines 210-229: read the CSV and the directory, partition, categorise
main_start ==
    /\ pc = "start"
    /\ csv_files' = get_csv_files(csv)
    /\ unmatched' = proc_unmatched(csv, act)
    /\ matched_gpx' = select_gpx(proc_matched(csv, act))
    /\ matched_gpx_gz' = select_gpx_gz(proc_matched(csv, act))
    /\ matched_fit_gz' = select_fit_gz(proc_matched(csv, act))
    /\ todo' = proc_unmatched(csv, act)
    /\ act0' = act
    /\ pc' = "move"
    /\ UNCHANGED <<inputs, act, unm, run, cur, cnt, ret, tried, written, prev, others>>

\* ---- step 1: move_unmatched_files
\* shutil.move(src, dst): the file leaves activities/ and lands in unmatched/
moved_from(d, f) == Del(d, f)
moved_to(u, d, f) == Put(u, f, d[f])

move_ok ==
    /\ pc = "move"
    /\ \E f \in todo :
          /\ f \in DOMAIN act
          /\ act' = moved_from(act, f)
          /\ unm' = moved_to(unm, act, f)
          /\ todo' = todo \ {f}
          /\ tried' = Bump(tried, <<"move", f>>)
    /\ cnt' = [cnt EXCEPT !.moved = @ + 1]
    /\ UNCHANGED <<inputs, locals, run, pc, cur, ret, written, prev, others>>

\* faulty variant: the exception of a failed move leaves the loop and the script
move_err_aborts == "aborted"
\* the except branch of the loop: the error is counted, the loop goes on
move_err_pc == "move"

move_err ==
    /\ pc = "move"
    /\ \E f \in todo :
          /\ todo' = todo \ {f}
          /\ tried' = Bump(tried, <<"move", f>>)
    /\ cnt' = [cnt EXCEPT !.errors = @ + 1]
    /\ pc' = move_err_pc
    /\ UNCHANGED <<inputs, locals, act, unm, run, cur, ret, written, prev, others>>

move_done ==
    /\ pc = "move"
    /\ todo = {}
    /\ pc' = "gz"
    /\ todo' = matched_gpx_gz
    /\ UNCHANGED <<inputs, locals, act, unm, run, cur, cnt, ret, tried, written, prev, others>>

\* ---- step 2: decompress_gpx_gz, called from main() lines 243-250
\* faulty variant: the original is unlinked before its content has been copied
open_output_unlinks_first(d, f) == Del(Put(d, output_path(f), Data(f, "gunzip", FALSE)), f)
\* gzip.open(filepath) and open(output_path, 'wb'): the output exists, empty or partial
open_output(d, f) == Put(d, output_path(f), Data(f, "gunzip", FALSE))
\* shutil.copyfileobj ran to the end and both files were closed
copy_output(d, f) == Put(d, output_path(f), Data(f, "gunzip", TRUE))
\* filepath.unlink()
unlink(d, f) == Del(d, f)

decompress_open_ok ==
    /\ pc = "gz"
    /\ \E f \in todo :
          /\ f \in DOMAIN act
          /\ act' = open_output(act, f)
          /\ cur' = f
          /\ todo' = todo \ {f}
          /\ tried' = Bump(tried, <<"gz", f>>)
    /\ pc' = "gz_copy"
    /\ UNCHANGED <<inputs, locals, unm, run, cnt, ret, written, prev, others>>

decompress_open_err ==
    /\ pc = "gz"
    /\ \E f \in todo :
          /\ todo' = todo \ {f}
          /\ tried' = Bump(tried, <<"gz", f>>)
          /\ ret' = Ret("decompress_gpx_gz", f, FALSE, "open")
    /\ cnt' = [cnt EXCEPT !.gpx_gz_errors = @ + 1]
    /\ UNCHANGED <<inputs, locals, act, unm, run, pc, cur, written, prev, others>>

decompress_copy_ok ==
    /\ pc = "gz_copy"
    /\ act' = copy_output(act, cur)
    /\ written' = written \cup {cur}
    /\ pc' = "gz_unlink"
    /\ UNCHANGED <<inputs, locals, unm, run, cur, todo, cnt, ret, tried, prev, others>>

decompress_copy_err ==
    /\ pc = "gz_copy"
    /\ ret' = Ret("decompress_gpx_gz", cur, FALSE, "gzip")
    /\ cnt' = [cnt EXCEPT !.gpx_gz_errors = @ + 1]
    /\ pc' = "gz"
    /\ cur' = EMPTY
    /\ UNCHANGED <<inputs, locals, act, unm, run, todo, tried, written, prev, others>>

decompress_unlink_ok ==
    /\ pc = "gz_unlink"
    /\ act' = unlink(act, cur)
    /\ ret' = Ret("decompress_gpx_gz", cur, TRUE, "none")
    /\ cnt' = [cnt EXCEPT !.gpx_gz_success = @ + 1]
    /\ pc' = "gz"
    /\ cur' = EMPTY
    /\ UNCHANGED <<inputs, locals, unm, run, todo, tried, written, prev, others>>

decompress_unlink_err ==
    /\ pc = "gz_unlink"
    /\ ret' = Ret("decompress_gpx_gz", cur, FALSE, "unlink")
    /\ cnt' = [cnt EXCEPT !.gpx_gz_errors = @ + 1]
    /\ pc' = "gz"
    /\ cur' = EMPTY
    /\ UNCHANGED <<inputs, locals, act, unm, run, todo, tried, written, prev, others>>

\* main() lines 253-259: step 3 runs only with the FIT library
gz_done ==
    /\ pc = "gz"
    /\ todo = {}
    /\ pc' = IF has_fit THEN "fit" ELSE "done"
    /\ todo' = IF has_fit THEN matched_fit_gz ELSE {}
    /\ UNCHANGED <<inputs, locals, act, unm, run, cur, cnt, ret, tried, written, prev, others>>

\* ---- step 3: convert_fit_gz and fit_to_gpx, called from main() lines 262-271
\* gzip.open(filepath) and open(fit_path, 'wb'): the temporary .fit exists, partial
open_fit(d, f) == Put(d, fit_path(f), Data(f, "gunzip", FALSE))
\* shutil.copyfileobj ran to the end
copy_fit(d, f) == Put(d, fit_path(f), Data(f, "gunzip", TRUE))
\* fit_to_gpx: open(gpx_path, 'w') truncates or creates the output
open_gpx(d, f) == Put(d, gpx_path(f), Data(f, "gpx", FALSE))
\* fit_to_gpx: f.write(gpx_content) and close
write_gpx(d, f) == Put(d, gpx_path(f), Data(f, "gpx", TRUE))
\* faulty variant: the temporary file is left behind
cleanup_skipped(d, f) == d
\* if fit_path.exists(): fit_path.unlink()
cleanup(d, f) == IF fit_path(f) \in DOMAIN d THEN Del(d, fit_path(f)) ELSE d

\* convert_fit_gz returns (False, why) for file f: the temporary file is cleaned up
\* (line 187-188 after fit_to_gpx failed, line 199-200 in the except branch),
\* main() counts the error and goes on with the loop
convert_fails(f, why) ==
    /\ act' = cleanup(act, f)
    /\ ret' = Ret("convert_fit_gz", f, FALSE, why)
    /\ cnt' = [cnt EXCEPT !.fit_errors = @ + 1]
    /\ pc' = "fit"
    /\ cur' = EMPTY

convert_open_ok ==
    /\ pc = "fit"
    /\ \E f \in todo :
          /\ f \in DOMAIN act
          /\ act' = open_fit(act, f)
          /\ cur' = f
          /\ todo' = todo \ {f}
          /\ tried' = Bump(tried, <<"fit", f>>)
    /\ pc' = "fit_copy"
    /\ UNCHANGED <<inputs, locals, unm, run, cnt, ret, written, prev, others>>

convert_open_err ==
    /\ pc = "fit"
    /\ \E f \in todo :
          /\ todo' = todo \ {f}
          /\ tried' = Bump(tried, <<"fit", f>>)
          /\ convert_fails(f, "open")
    /\ UNCHANGED <<inputs, locals, unm, run, written, prev, others>>

convert_copy_ok ==
    /\ pc = "fit_copy"
    /\ act' = copy_fit(act, cur)
    /\ pc' = "fit_decode"
    /\ UNCHANGED <<inputs, locals, unm, run, cur, todo, cnt, ret, tried, written, prev, others>>

convert_copy_err ==
    /\ pc = "fit_copy"
    /\ convert_fails(cur, "gzip")
    /\ UNCHANGED <<inputs, locals, unm, run, todo, tried, written, prev, others>>

\* fit_to_gpx lines 93-119: the reader yields at least one record with both coordinates
fit_decode_points ==
    /\ pc = "fit_decode"
    /\ kind[cur] = "good"
    /\ pc' = "fit_wopen"
    /\ UNCHANGED <<inputs, locals, act, unm, run, cur, todo, cnt, ret, tried, written, prev, others>>

\* fit_to_gpx lines 121-122: no usable point
fit_decode_nopoints ==
    /\ pc = "fit_decode"
    /\ kind[cur] = "nopoints"
    /\ convert_fails(cur, "nopoints")
    /\ UNCHANGED <<inputs, locals, unm, run, todo, tried, written, prev, others>>

\* fit_to_gpx lines 132-133: the decoder raised
fit_decode_err ==
    /\ pc = "fit_decode"
    /\ convert_fails(cur, "decode")
    /\ UNCHANGED <<inputs, locals, unm, run, todo, tried, written, prev, others>>

fit_write_open_ok ==
    /\ pc = "fit_wopen"
    /\ act' = open_gpx(act, cur)
    /\ pc' = "fit_write"
    /\ UNCHANGED <<inputs, locals, unm, run, cur, todo, cnt, ret, tried, written, prev, others>>

fit_write_open_err ==
    /\ pc = "fit_wopen"
    /\ convert_fails(cur, "write")
    /\ UNCHANGED <<inputs, locals, unm, run, todo, tried, written, prev, others>>

fit_write_ok ==
    /\ pc = "fit_write"
    /\ act' = write_gpx(act, cur)
    /\ written' = written \cup {cur}
    /\ pc' = "fit_cleanup"
    /\ UNCHANGED <<inputs, locals, unm, run, cur, todo, cnt, ret, tried, prev, others>>

fit_write_err ==
    /\ pc = "fit_write"
    /\ convert_fails(cur, "write")
    /\ UNCHANGED <<inputs, locals, unm, run, todo, tried, written, prev, others>>

\* convert_fit_gz lines 186-188 after fit_to_gpx returned True
convert_cleanup ==
    /\ pc = "fit_cleanup"
    /\ act' = cleanup(act, cur)
    /\ pc' = "fit_unlink"
    /\ UNCHANGED <<inputs, locals, unm, run, cur, todo, cnt, ret, tried, written, prev, others>>

\* convert_fit_gz lines 190-193
convert_unlink_ok ==
    /\ pc = "fit_unlink"
    /\ act' = unlink(act, cur)
    /\ ret' = Ret("convert_fit_gz", cur, TRUE, "none")
    /\ cnt' = [cnt EXCEPT !.fit_success = @ + 1]
    /\ pc' = "fit"
    /\ cur' = EMPTY
    /\ UNCHANGED <<inputs, locals, unm, run, todo, tried, written, prev, others>>

\* filepath.unlink() raised: the except branch returns (False, str(e))
convert_unlink_err ==
    /\ pc = "fit_unlink"
    /\ convert_fails(cur, "unlink")
    /\ UNCHANGED <<inputs, locals, unm, run, todo, tried, written, prev, others>>

fit_done ==
    /\ pc = "fit"
    /\ todo = {}
    /\ pc' = "done"
    /\ UNCHANGED <<inputs, locals, act, unm, run, cur, todo, cnt, ret, tried, written, prev, others>>

\* the run left nothing undone: no error was counted and step 3 was not skipped
\* over pending files
clean_run ==
    /\ cnt.errors = 0
    /\ cnt.gpx_gz_errors = 0
    /\ cnt.fit_errors = 0
    /\ (has_fit \/ matched_fit_gz = {})

\* the script is started again, with the same CSV, on a directory that the last run
\* has fully and successfully processed
rerun ==
    /\ pc = "done"
    /\ run < MaxRuns
    /\ clean_run
    /\ run' = run + 1
    /\ prev' = <<act, unm, clean_run>>
    /\ pc' = "start"
    /\ cnt' = ZeroCnt
    /\ ret' = NoRet
    /\ tried' = NoTries
    /\ csv_files' = {}
    /\ unmatched' = {}
    /\ matched_gpx' = {}
    /\ matched_gpx_gz' = {}
    /\ matched_fit_gz' = {}
    /\ written' = {}
    /\ act0' = act
    /\ UNCHANGED <<inputs, act, unm, cur, todo, others>>

ProcNext ==
    \/ main_start
    \/ move_ok
    \/ move_err
    \/ move_done
    \/ decompress_open_ok
    \/ decompress_open_err
    \/ decompress_copy_ok
    \/ decompress_copy_err
    \/ decompress_unlink_ok
    \/ decompress_unlink_err
    \/ gz_done
    \/ convert_open_ok
    \/ convert_open_err
    \/ convert_copy_ok
    \/ convert_copy_err
    \/ fit_decode_points
    \/ fit_decode_nopoints
    \/ fit_decode_err
    \/ fit_write_open_ok
    \/ fit_write_open_err
    \/ fit_write_ok
    \/ fit_write_err
    \/ convert_cleanup
    \/ convert_unlink_ok
    \/ convert_unlink_err
    \/ fit_done
    \/ rerun

Spec == Init /\ [][ProcNext]_vars

\* ---------------------------------------------------------------- analyze_activities.py
\* analyze() lines 17-31 and 76: the keys of the csv_files dictionary
analyze_keys(rows) ==
    {IF startswith(filename, PREFIX) THEN StripPrefix(filename) ELSE filename :
        filename \in rows}

\* faulty variant: missing is not reduced by the files on disk
an_missing_all(keys, actual) == keys
\* analyze() lines 78-80
an_matched(keys, actual) == keys \cap actual
an_missing(keys, actual) == keys \ actual
an_unmatched(keys, actual) == actual \ keys

\* analyze(): the returned dictionary (csv_data by its keys)
analyze ==
    /\ ~report.made
    /\ report' = [made |-> TRUE,
                  matched |-> an_matched(analyze_keys(csv), get_actual_files(act)),
                  unmatched |-> an_unmatched(analyze_keys(csv), get_actual_files(act)),
                  missing |-> an_missing(analyze_keys(csv), get_actual_files(act)),
                  csv_data |-> analyze_keys(csv)]
    /\ UNCHANGED <<procVars, apiVars>>

ReconInit ==
    /\ csv \in {c \in SUBSET ReconRawNames : Cardinality(c) <= MaxRows}
    /\ \E names \in {d \in SUBSET DiskNames : Cardinality(d) <= MaxFiles} :
          /\ act = [n \in names |-> Raw(n)]
          /\ act0 = act
          /\ kind = [n \in select_fit_gz(names \cap get_csv_files(csv)) |-> "good"]
    /\ unm = NoFiles
    /\ has_fit = TRUE
    /\ run = 1
    /\ pc = "start"
    /\ cur = EMPTY
    /\ todo = {}
    /\ csv_files = {}
    /\ unmatched = {}
    /\ matched_gpx = {}
    /\ matched_gpx_gz = {}
    /\ matched_fit_gz = {}
    /\ cnt = ZeroCnt
    /\ ret = NoRet
    /\ tried = NoTries
    /\ written = {}
    /\ prev = <<NoFiles, NoFiles, FALSE>>
    /\ report = NoReport
    /\ ApiIdle

\* both scripts read the same CSV and the same directory
ReconNext ==
    \/ analyze
    \/ main_start

SpecRecon == ReconInit /\ [][ReconNext]_vars

\* ---------------------------------------------------------------- backend/app/api
\* a nullable column or optional parameter: <<>> is NULL / None, <<v>> is the value v
NONE == <<>>
Some(v) == <<v>>

AreaVals == {NONE, Some(""), Some("Unknown"), Some("North")}
TypeVals == {NONE, Some(""), Some("Bridleway")}
\* length_km in units of 0.0001 km
LenVals == {NONE, Some(0), Some(1235)}

AreaFilters == {NONE, Some({}), Some({"North"}), Some({"North", "Unknown"})}
TypeFilters == {NONE, Some({}), Some({"Bridleway"})}

\* Python's round(x, 3) on a length in units of 0.0001 km: to the nearest 0.001 km,
\* a tie going to the even neighbour
round3(v) ==
    LET q == v \div 10
        r == v % 10
    IN  IF r < 5 THEN q * 10
        ELSE IF r > 5 THEN (q + 1) * 10
        ELSE IF q % 2 = 0 THEN q * 10 ELSE (q + 1) * 10

\* faulty variant: `if area is not None:` -- an empty list filters everything out
filter_not_none(f) == f # NONE
\* paths.py lines 31, 33: `if area:` -- None and the empty list are both falsy
filter_given(f) == f # NONE /\ f[1] # {}
\* Column.in_(values): NULL IN (...) is not true
in_(col, f) == col # NONE /\ col[1] \in f[1]

\* paths.py lines 20-36: the rows the query selects
query_paths(area, path_type) ==
    {p \in table : /\ (filter_given(area) => in_(p.area, area))
                   /\ (filter_given(path_type) => in_(p.path_type, path_type))}

\* paths.py line 49: round(p.length_km, 3) if p.length_km else None
feature_length(l) == IF l # NONE /\ l[1] # 0 THEN Some(round3(l[1])) ELSE NONE

\* paths.py lines 39-53
feature(p) == [id |-> p.id, area |-> p.area, path_type |-> p.path_type,
               length_km |-> feature_length(p.length_km)]

\* query.all(): the selected rows, each once, in an order the store chooses
Orders(rows) ==
    {s \in [1..Cardinality(rows) -> rows] : \A i, j \in DOMAIN s : s[i] = s[j] => i = j}

\* one request against the table: the endpoints are stateless
get_paths ==
    /\ req.op = "none"
    /\ \E area \in AreaFilters, path_type \in TypeFilters :
          /\ req' = [op |-> "paths", area |-> area, path_type |-> path_type]
          /\ \E rows \in Orders(query_paths(area, path_type)) :
                resp' = [op |-> "paths",
                         features |-> [i \in DOMAIN rows |-> feature(rows[i])]]
    /\ UNCHANGED <<procVars, report, table>>

\* SUM(length_km) over a set of rows: NULLs are skipped, NULL when nothing is left
RECURSIVE sum_len(_)
sum_len(rows) ==
    IF rows = {} THEN 0
    ELSE LET p == CHOOSE x \in rows : TRUE
         IN  (IF p.length_km = NONE THEN 0 ELSE p.length_km[1]) + sum_len(rows \ {p})
sql_sum(rows) == IF \A p \in rows : p.length_km = NONE THEN NONE ELSE Some(sum_len(rows))

\* `length or 0`
or0(l) == IF l = NONE THEN 0 ELSE l[1]
\* `path_type or "Unknown"`: None and '' are both falsy
or_unknown(v) == IF v = NONE \/ v[1] = "" THEN "Unknown" ELSE v[1]

\* stats.py lines 17-21 / 31-35: one row per distinct column value, NULL included
group_rows(col) ==
    {[value |-> v,
      count |-> Cardinality({p \in table : p[col] = v}),
      length |-> sql_sum({p \in table : p[col] = v})] : v \in {p[col] : p \in table}}

\* stats.py lines 23-28 / 37-42: the dictionary filled row by row; of the rows that
\* share a key the one the store returns last stays
dicts(groups) ==
    LET keys == {or_unknown(g.value) : g \in groups}
    IN  {[k \in keys |-> [count |-> pick[k].count,
                          length_km |-> round3(or0(pick[k].length))]] :
            pick \in {f \in [keys -> groups] : \A k \in keys : or_unknown(f[k].value) = k}}

get_stats ==
    /\ req.op = "none"
    /\ req' = [op |-> "stats"]
    /\ \E by_type \in dicts(group_rows("path_type")), by_area \in dicts(group_rows("area")) :
          resp' = [op |-> "stats",
                   total_paths |-> Cardinality(table),
                   total_length_km |-> round3(or0(sql_sum(table))),
                   by_type |-> by_type,
                   by_area |-> by_area]
    /\ UNCHANGED <<procVars, report, table>>

ApiInit ==
    /\ \E n \in 0..MaxRecs :
          \E cols \in [1..n -> [area : AreaVals, path_type : TypeVals, length_km : LenVals]] :
             table = {[id |-> i, area |-> cols[i].area, path_type |-> cols[i].path_type,
                       length_km |-> cols[i].length_km] : i \in 1..n}
    /\ req = [op |-> "none"]
    /\ resp = [op |-> "none"]
    /\ report = NoReport
    /\ csv = {}
    /\ act = NoFiles
    /\ act0 = NoFiles
    /\ kind = [n \in {} |-> "good"]
    /\ unm = NoFiles
    /\ has_fit = TRUE
    /\ run = 1
    /\ pc = "idle"
    /\ cur = EMPTY
    /\ todo = {}
    /\ csv_files = {}
    /\ unmatched = {}
    /\ matched_gpx = {}
    /\ matched_gpx_gz = {}
    /\ matched_fit_gz = {}
    /\ cnt = ZeroCnt
    /\ ret = NoRet
    /\ tried = NoTries
    /\ written = {}
    /\ prev = <<NoFiles, NoFiles, FALSE>>

ApiNext ==
    \/ get_paths
    \/ get_stats

SpecApi == ApiInit /\ [][ApiNext]_vars

\* ================================================================ claims
\* the files of this run that steps 2 and 3 work on
gz_selected == matched_gpx_gz \cup matched_fit_gz

\* C1: re-running the processing script, with the same CSV, on a directory that the
\* previous run fully and successfully processed selects no file for the move,
\* decompress or convert step, and leaves activities/ and unmatched/ as they were.
C1_RerunIsNoOp ==
    (run >= 2 /\ pc # "start") =>
        /\ unmatched = {}
        /\ matched_gpx_gz = {}
        /\ matched_fit_gz = {}
        /\ act = prev[1]
        /\ unm = prev[2]

\* C2: the processing script works on the partition the reconciliation script reports:
\* the expected-filename sets are equal, and so are matched and unmatched.
C2_SamePartition ==
    (report.made /\ pc = "move") =>
        /\ csv_files = report.csv_data
        /\ proc_matched(csv, act) = report.matched
        /\ unmatched = report.unmatched

\* C3: at every point of a run, each matched .gpx.gz / .fit.gz file is either still
\* in activities/ or its output has been completely written; when a call has just
\* reported success the original is gone and the complete output is in place; and
\* after a run without errors every matched .gpx.gz is gone and its .gpx exists.
C3_DeleteOnlyOnSuccess ==
    /\ \A f \in gz_selected : f \in DOMAIN act \/ f \in written
    /\ (pc = "gz" /\ ret.fn = "decompress_gpx_gz" /\ ret.ok) =>
          /\ ret.file \notin DOMAIN act
          /\ output_path(ret.file) \in DOMAIN act
          /\ act[output_path(ret.file)] = Data(ret.file, "gunzip", TRUE)
    /\ (pc = "fit" /\ ret.fn = "convert_fit_gz" /\ ret.ok) =>
          /\ ret.file \notin DOMAIN act
          /\ gpx_path(ret.file) \in DOMAIN act
          /\ act[gpx_path(ret.file)] = Data(ret.file, "gpx", TRUE)
    /\ (pc = "done" /\ clean_run) =>
          \A f \in matched_gpx_gz : output_path(f) \in DOMAIN act /\ f \notin DOMAIN act

\* a matched .gpx.gz has been removed and its complete output is in place
C3_Witness ==
    \E f \in matched_gpx_gz :
        /\ f \notin DOMAIN act
        /\ output_path(f) \in DOMAIN act
        /\ act[output_path(f)] = Data(f, "gunzip", TRUE)

\* C4: when convert_fit_gz has returned failure for a file, the temporary .fit does
\* not exist, the .fit.gz is still there unchanged, and if the failure was "no GPS
\* points" no .gpx has been produced from it.
C4_ConvertFailure ==
    (pc = "fit" /\ ret.fn = "convert_fit_gz" /\ ~ret.ok) =>
        /\ fit_path(ret.file) \notin DOMAIN act
        /\ ret.file \in DOMAIN act
        /\ act[ret.file] = Raw(ret.file)
        /\ ret.why = "nopoints" =>
              ~(/\ gpx_path(ret.file) \in DOMAIN act
                /\ act[gpx_path(ret.file)].of = ret.file)

\* convert_fit_gz has just reported a file without usable points
C4_Witness ==
    /\ pc = "fit"
    /\ ret.fn = "convert_fit_gz"
    /\ ~ret.ok
    /\ ret.why = "nopoints"

C6_Partition ==
    report.made =>
        /\ report.matched \cup report.missing = report.csv_data
        /\ report.matched \cup report.unmatched = DOMAIN act
        /\ report.matched \cap report.missing = {}
        /\ report.matched \cap report.unmatched = {}
        /\ report.missing \cap report.unmatched = {}

\* analyze() has returned with none of the three sets empty
C6_Witness ==
    /\ report.made
    /\ report.matched # {}
    /\ report.missing # {}
    /\ report.unmatched # {}

\* the sum of the length_km values of a by_type / by_area dictionary
RECURSIVE dict_sum(_, _)
dict_sum(d, keys) ==
    IF keys = {} THEN 0
    ELSE LET k == CHOOSE x \in keys : TRUE
         IN  d[k].length_km + dict_sum(d, keys \ {k})
abs(x) == IF x < 0 THEN -x ELSE x
\* each rounding is off by at most 0.0005 km: one per entry, and one for the total
tolerance(d) == 5 * (Cardinality(DOMAIN d) + 1)

\* C7: total_length_km is the sum of the by_area lengths, and of the by_type lengths,
\* within rounding tolerance.
C7_TotalIsSumOfGroups ==
    resp.op = "stats" =>
        /\ abs(resp.total_length_km - dict_sum(resp.by_area, DOMAIN resp.by_area))
              <= tolerance(resp.by_area)
        /\ abs(resp.total_length_km - dict_sum(resp.by_type, DOMAIN resp.by_type))
              <= tolerance(resp.by_type)

\* what the request asks for
wanted(p) ==
    /\ (req.area # NONE /\ req.area[1] # {}) => (p.area # NONE /\ p.area[1] \in req.area[1])
    /\ (req.path_type # NONE /\ req.path_type[1] # {}) =>
          (p.path_type # NONE /\ p.path_type[1] \in req.path_type[1])

\* C8: get_paths returns exactly one feature for each record whose area / path_type
\* is in the requested sets, and nothing else; an absent or empty filter does not
\* restrict.
C8_ExactlyTheRequested ==
    resp.op = "paths" =>
        /\ \A p \in table :
              Cardinality({i \in DOMAIN resp.features : resp.features[i].id = p.id})
                 = IF wanted(p) THEN 1 ELSE 0
        /\ \A i \in DOMAIN resp.features : \E p \in table : resp.features[i].id = p.id

\* an empty area list and a path_type filter that keeps one record and drops another
C8_Witness ==
    /\ resp.op = "paths"
    /\ req.area = Some({})
    /\ req.path_type = Some({"Bridleway"})
    /\ Len(resp.features) = 1
    /\ Cardinality(table) = 2

\* C9: a feature's length_km is null exactly when the record's is absent, and is
\* otherwise the stored length rounded to 3 decimals (a stored 0 included).
C9_LengthNullIffAbsent ==
    resp.op = "paths" =>
        \A i \in DOMAIN resp.features : \A p \in table :
            p.id = resp.features[i].id =>
                resp.features[i].length_km =
                    IF p.length_km = NONE THEN NONE ELSE Some(round3(p.length_km[1]))

\* C10: a matched .gpx file stays in activities/ with the content it had when the run
\* started.
C10_MatchedGpxUntouched ==
    \A f \in matched_gpx : f \in DOMAIN act /\ act[f] = act0[f]
====
